---- MODULE Spec2Model ----
(***************************************************************************)
(* mapdbsnp (src/mapdbsnp/src/main.rs): `index` builds a binary index of   *)
(* fixed-width records from a sorted TSV table (create_map), `map` rewrites*)
(* the first column of a second TSV through a binary search over that      *)
(* index (map_to_loci).                                                    *)
(*                                                                         *)
(* Text is a sequence of one-character strings, a file is a sequence of    *)
(* bytes, a u64 is four 16-bit limbs (least significant first) so that the *)
(* wrap of an unsigned subtraction is computed at its real width.          *)
(***************************************************************************)
EXTENDS Integers, Sequences, FiniteSets, TLC

\* ------------------------------------------------------------------ bounds

\* Most rows the source table of `index` holds.
MaxRows == 4
\* Identifiers are drawn from 1..MaxId.
MaxId == 5
\* Most rows the input table of `map` holds.
MaxInput == 2
\* Longest chromosome label tried on the codec alone.
MaxLabelLen == 2

\* --------------------------------------------------------- program constants

RECORD_COUNTER_SIZE == 8
RECORD_SIZE == 9

\* ------------------------------------------------------------------- results

Ok(v) == [ok |-> TRUE, val |-> v, err |-> "none"]
Err(e) == [ok |-> FALSE, val |-> 0, err |-> e]

\* ---------------------------------------------------------------------- text

Digits == <<"0", "1", "2", "3", "4", "5", "6", "7", "8", "9">>

IsDigit(c) == \E i \in 1..10 : Digits[i] = c

DigitVal(c) == (CHOOSE i \in 1..10 : Digits[i] = c) - 1

\* format!("{}", n) of an unsigned integer: decimal, no sign, no padding.
RECURSIVE FormatDec(_)
FormatDec(n) ==
    IF n < 10 THEN <<Digits[n + 1]>>
    ELSE FormatDec(n \div 10) \o <<Digits[(n % 10) + 1]>>

\* The digit loop of str::parse for an unsigned type whose largest value is
\* maxDiv10 * 10 + maxMod10: a character that is no digit, or a value past the
\* largest, is an error.
RECURSIVE ParseDigits(_, _, _, _)
ParseDigits(s, acc, maxDiv10, maxMod10) ==
    IF s = <<>> THEN Ok(acc)
    ELSE IF ~IsDigit(Head(s)) THEN Err("parse")
    ELSE LET d == DigitVal(Head(s)) IN
         IF acc > maxDiv10 \/ (acc = maxDiv10 /\ d > maxMod10) THEN Err("parse")
         ELSE ParseDigits(Tail(s), acc * 10 + d, maxDiv10, maxMod10)

\* str::parse::<u8>() and str::parse::<u32>(): one optional leading "+", then at
\* least one digit.
ParseUnsigned(s, maxDiv10, maxMod10) ==
    LET body == IF s # <<>> /\ Head(s) = "+" THEN Tail(s) ELSE s IN
    IF body = <<>> THEN Err("parse") ELSE ParseDigits(body, 0, maxDiv10, maxMod10)

\* str::replace("rs", ""): every non-overlapping occurrence, left to right.
RECURSIVE RemoveRs(_)
RemoveRs(s) ==
    IF Len(s) < 2 THEN s
    ELSE IF s[1] = "r" /\ s[2] = "s" THEN RemoveRs(SubSeq(s, 3, Len(s)))
    ELSE <<s[1]>> \o RemoveRs(Tail(s))

rsid_to_u32(rsid_text) == ParseUnsigned(RemoveRs(rsid_text), 429496729, 5)

\* str::split(':'): the pieces between the colons, in order.
RECURSIVE SplitColon(_, _)
SplitColon(s, piece) ==
    IF s = <<>> THEN <<piece>>
    ELSE IF Head(s) = ":" THEN <<piece>> \o SplitColon(Tail(s), <<>>)
    ELSE SplitColon(Tail(s), Append(piece, Head(s)))

\* ---------------------------------------------------------------- RecordCodec

chrom_to_u8_swapped(chrom) ==
    IF chrom = <<"X">> THEN Ok(24)
    ELSE IF chrom = <<"Y">> THEN Ok(23)
    ELSE IF chrom = <<"M", "T">> THEN Ok(25)
    ELSE ParseUnsigned(chrom, 25, 5)

chrom_to_u8(chrom) ==
    IF chrom = <<"X">> THEN Ok(23)
    ELSE IF chrom = <<"Y">> THEN Ok(24)
    ELSE IF chrom = <<"M", "T">> THEN Ok(25)
    ELSE ParseUnsigned(chrom, 25, 5)

u8_to_chrom(x) ==
    IF x \in 1..22 THEN Ok(FormatDec(x))
    ELSE IF x = 23 THEN Ok(<<"X">>)
    ELSE IF x = 24 THEN Ok(<<"Y">>)
    ELSE IF x = 25 THEN Ok(<<"M", "T">>)
    ELSE Err("invalid_chrom")

usize_to_le_bytes(v) ==
    <<v % 256, (v \div 256) % 256, (v \div 65536) % 256, v \div 16777216, 0, 0, 0, 0>>

\* u32::to_be_bytes, u8::to_be_bytes, usize::to_be_bytes (64-bit target).
u32_to_be_bytes(v) ==
    <<v \div 16777216, (v \div 65536) % 256, (v \div 256) % 256, v % 256>>

u8_to_be_bytes(v) == <<v>>

usize_to_be_bytes(v) == <<0, 0, 0, 0>> \o u32_to_be_bytes(v)

parse_map_record(r) ==
    LET rsid_r == rsid_to_u32(r[1])
        parts == SplitColon(r[2], <<>>)
        chrom_r == chrom_to_u8(parts[1])
        pos_r == IF Len(parts) < 2 THEN Err("unwrap_none")
                 ELSE ParseUnsigned(parts[2], 429496729, 5)
    IN  IF ~rsid_r.ok THEN Err(rsid_r.err)
        ELSE IF ~chrom_r.ok THEN Err(chrom_r.err)
        ELSE IF ~pos_r.ok THEN Err(pos_r.err)
        ELSE Ok(<<rsid_r.val, chrom_r.val, pos_r.val>>)

write_map_record(rsid_v, chrom_v, pos_v) ==
    u32_to_be_bytes(rsid_v) \o u8_to_be_bytes(chrom_v) \o u32_to_be_bytes(pos_v)

\* ------------------------------------------------------------ u64 arithmetic

Limb == 65536

U64Of(n) == <<n % Limb, n \div Limb, 0, 0>>

U64Zero == <<0, 0, 0, 0>>

U64IsSmall(x) == x[3] = 0 /\ x[4] = 0 /\ x[2] < 32768

U64ToNat(x) == x[1] + Limb * x[2]

U64Less(a, b) ==
    \E i \in 1..4 : a[i] < b[i] /\ \A j \in (i + 1)..4 : a[j] = b[j]

\* a + b, a - b, a * k at 64 bits: the wrapped value, and whether it wrapped.
U64Add(a, b) ==
    LET s1 == a[1] + b[1]
        s2 == a[2] + b[2] + (s1 \div Limb)
        s3 == a[3] + b[3] + (s2 \div Limb)
        s4 == a[4] + b[4] + (s3 \div Limb)
    IN  [val |-> <<s1 % Limb, s2 % Limb, s3 % Limb, s4 % Limb>>,
         overflow |-> s4 >= Limb]

U64Sub(a, b) ==
    LET d1 == a[1] - b[1]
        d2 == a[2] - b[2] - (IF d1 < 0 THEN 1 ELSE 0)
        d3 == a[3] - b[3] - (IF d2 < 0 THEN 1 ELSE 0)
        d4 == a[4] - b[4] - (IF d3 < 0 THEN 1 ELSE 0)
    IN  [val |-> <<(d1 + Limb) % Limb, (d2 + Limb) % Limb,
                   (d3 + Limb) % Limb, (d4 + Limb) % Limb>>,
         overflow |-> d4 < 0]

U64Mul(a, k) ==
    LET p1 == a[1] * k
        p2 == a[2] * k + (p1 \div Limb)
        p3 == a[3] * k + (p2 \div Limb)
        p4 == a[4] * k + (p3 \div Limb)
    IN  [val |-> <<p1 % Limb, p2 % Limb, p3 % Limb, p4 % Limb>>,
         overflow |-> p4 >= Limb]

U64Half(a) ==
    <<(a[1] \div 2) + (a[2] % 2) * 32768, (a[2] \div 2) + (a[3] % 2) * 32768,
      (a[3] \div 2) + (a[4] % 2) * 32768, a[4] \div 2>>

\* ------------------------------------------------------------------- files

NoFile == [exists |-> FALSE, bytes |-> <<>>]

FileOf(b) == [exists |-> TRUE, bytes |-> b]

\* FileExt::read_exact_at: n bytes at a byte offset given as a u64; a read
\* that runs past the end of the file is an error.
read_exact_at(f, offset, n) ==
    IF U64IsSmall(offset) /\ U64ToNat(offset) + n <= Len(f.bytes)
    THEN Ok(SubSeq(f.bytes, U64ToNat(offset) + 1, U64ToNat(offset) + n))
    ELSE Err("eof")

read_u8_at(f, offset) ==
    LET b == read_exact_at(f, offset, 1) IN
    IF b.ok THEN Ok(b.val[1]) ELSE b

read_u32_at(f, offset) ==
    LET b == read_exact_at(f, offset, 4) IN
    IF b.ok
    THEN Ok(((b.val[1] * 256 + b.val[2]) * 256 + b.val[3]) * 256 + b.val[4])
    ELSE b

read_u64_at(f, offset) ==
    LET b == read_exact_at(f, offset, 8) IN
    IF b.ok
    THEN Ok(<<b.val[7] * 256 + b.val[8], b.val[5] * 256 + b.val[6],
              b.val[3] * 256 + b.val[4], b.val[1] * 256 + b.val[2]>>)
    ELSE b

\* RECORD_COUNTER_SIZE + (record_idx * RECORD_SIZE)
get_map_seek_index(record_idx) ==
    LET m == U64Mul(record_idx, RECORD_SIZE)
        s == U64Add(U64Of(RECORD_COUNTER_SIZE), m.val)
    IN  [val |-> s.val, overflow |-> m.overflow \/ s.overflow]

\* (num_keys_in_map as f64).log2().ceil() as usize: the cast saturates, so
\* log2(0) = -inf gives 0.
RECURSIVE CeilLog2(_)
CeilLog2(n) == IF n <= 1 THEN 0 ELSE 1 + CeilLog2((n + 1) \div 2)

\* ------------------------------------------------------------------ inputs

Ids == 1..MaxId

SampleLabels == << <<"X">>, <<"M", "T">>, <<"2", "2">>, <<"1">>, <<"Y">>, <<"1", "0">> >>

LabelFor(i) == SampleLabels[((i - 1) % Len(SampleLabels)) + 1]

PosFor(i) == 5000 + 33000 * i

RsidText(i) == <<"r", "s">> \o FormatDec(i)

SourceRow(i, label, pos) == <<RsidText(i), label \o <<":">> \o FormatDec(pos)>>

\* One well-formed row per identifier, and rows that do not parse: a label that
\* is no number, a position that is no number, no position, no identifier.
WellFormedRows == {SourceRow(i, LabelFor(i), PosFor(i)) : i \in Ids}

OddRows ==
    { SourceRow(2, <<"c", "h", "r", "1">>, 100),
      <<RsidText(2), <<"1", ":", "a", "b", "c">>>>,
      <<RsidText(2), <<"1">>>>,
      <<<<"i", "d", "2">>, <<"1", ":", "5">>>> }

SrcRows == WellFormedRows \cup OddRows

\* ------------------------------------------------------------------- state

VARIABLES
    pc,            \* position of the running command
    fail,          \* why the command aborted ("none" while it has not)
    src,           \* create_map: the source rows read so far
    wbuf,          \* write_map_records: bytes held by the BufWriter
    dst,           \* the file at the index path
    last_rsid,     \* write_map_records: last_rsid
    num_records,   \* write_map_records: num_records
    tmp,           \* prepend_file: the temporary file
    tmp_same_dev,  \* prepend_file: the temporary file is on the index's device
    src_off,       \* prepend_file: bytes io::copy has read from the index
    overflow_checks, \* map: whether the build panics on integer overflow
    num_keys_in_map, \* map_to_loci: num_keys_in_map (u64)
    max_iters,     \* map_to_loci: max_iters
    inp,           \* map_to_loci: the input rows read so far
    start,         \* map_to_loci: start (u64)
    end,           \* map_to_loci: end (u64)
    iter,          \* map_to_loci: passes of `for _ in 0..max_iters` made
    rsid,          \* map_to_loci: rsid of the row being searched
    out,           \* the rows written to the output table
    out_src,       \* history: for each written row, the number of its input row
    underflow,     \* history: which subtraction was evaluated on a zero
    c_pc,          \* codec alone: position
    c_label,       \* codec alone: the label tried
    c_code,        \* codec alone: chrom_to_u8(c_label)
    c_text         \* codec alone: u8_to_chrom of that code

buildVars == <<src, wbuf, last_rsid, num_records, tmp, tmp_same_dev, src_off>>

mapVars == <<overflow_checks, num_keys_in_map, max_iters, inp, start, end, iter,
             rsid, out, out_src, underflow>>

codecVars == <<c_pc, c_label, c_code, c_text>>

vars == <<pc, fail, dst, buildVars, mapVars, codecVars>>

PipelineInit ==
    /\ fail = "none"
    /\ src = <<>>
    /\ wbuf = <<>>
    /\ dst = NoFile
    /\ last_rsid = 0
    /\ num_records = 0
    /\ tmp = NoFile
    /\ tmp_same_dev = TRUE
    /\ src_off = 0
    /\ overflow_checks = "unknown"
    /\ num_keys_in_map = U64Zero
    /\ max_iters = 0
    /\ inp = <<>>
    /\ start = U64Zero
    /\ end = U64Zero
    /\ iter = 0
    /\ rsid = 0
    /\ out = <<>>
    /\ out_src = <<>>
    /\ underflow = "none"

CodecIdle ==
    /\ c_label = <<>>
    /\ c_code = Err("none")
    /\ c_text = Err("none")

Init ==
    /\ pc = "start"
    /\ c_pc = "idle"
    /\ PipelineInit
    /\ CodecIdle

\* ---------------------------------------------------------------- create_map
\* (In the actions a local value is bound by \E over a one-element set, which
\* has it evaluated once.)

\* create_map opens the source table; write_map_records creates the index file
\* (File::create truncates) and sets its locals.
OpenDst ==
    /\ pc = "start"
    /\ pc' = "rows"
    /\ dst' = FileOf(<<>>)
    /\ wbuf' = <<>>
    /\ last_rsid' = 0
    /\ num_records' = 0
    /\ UNCHANGED <<fail, src, tmp, tmp_same_dev, src_off, mapVars, codecVars>>

SortViolatedOrEqual(last, rsid_v) == last >= rsid_v

\* `if last_rsid > rsid { panic!(...) }`
SortViolated(last, rsid_v) == last > rsid_v

\* One pass of the loop of write_map_records over the next source row. An error
\* return or a panic drops the BufWriter, which writes out what it holds.
WriteRow(r) ==
    /\ pc = "rows"
    /\ Len(src) < MaxRows
    /\ src' = Append(src, r)
    /\ \E p \in {parse_map_record(r)} :
       IF ~p.ok
       THEN /\ pc' = "build_failed"
            /\ fail' = p.err
            /\ dst' = FileOf(dst.bytes \o wbuf)
            /\ wbuf' = <<>>
            /\ UNCHANGED <<last_rsid, num_records>>
       ELSE \E written \in {wbuf \o write_map_record(p.val[1], p.val[2], p.val[3])} :
            /\ num_records' = num_records + 1
            /\ IF SortViolated(last_rsid, p.val[1])
               THEN /\ pc' = "build_failed"
                    /\ fail' = "unsorted"
                    /\ dst' = FileOf(dst.bytes \o written)
                    /\ wbuf' = <<>>
                    /\ UNCHANGED last_rsid
               ELSE /\ last_rsid' = p.val[1]
                    /\ wbuf' = written
                    /\ UNCHANGED <<pc, fail, dst>>
    /\ UNCHANGED <<tmp, tmp_same_dev, src_off, mapVars, codecVars>>

\* The source table ends: map_wtr.flush(), Ok(num_records).
FlushRecords ==
    /\ pc = "rows"
    /\ pc' = "prepend_tmp"
    /\ dst' = FileOf(dst.bytes \o wbuf)
    /\ wbuf' = <<>>
    /\ UNCHANGED <<fail, src, last_rsid, num_records, tmp, tmp_same_dev, src_off, mapVars, codecVars>>

\* -------------------------------------------------------------- prepend_file

\* Temp::new_file() takes no path: the file is made in the system's temporary
\* directory, which is or is not on the device of the index.
TempNewFile ==
    /\ pc = "prepend_tmp"
    /\ pc' = "prepend_open"
    /\ \E same \in BOOLEAN : tmp_same_dev' = same
    /\ tmp' = FileOf(<<>>)
    /\ UNCHANGED <<fail, src, wbuf, dst, last_rsid, num_records, src_off, mapVars, codecVars>>

\* File::create(&tmp_path), File::open(file_path)
OpenFiles ==
    /\ pc = "prepend_open"
    /\ pc' = "prepend_header"
    /\ tmp' = FileOf(<<>>)
    /\ src_off' = 0
    /\ UNCHANGED <<fail, src, wbuf, dst, last_rsid, num_records, tmp_same_dev, mapVars, codecVars>>

\* tmp.write_all(data), data being num_records.to_be_bytes()
WriteHeader ==
    /\ pc = "prepend_header"
    /\ pc' = "prepend_copy"
    /\ tmp' = FileOf(tmp.bytes \o usize_to_be_bytes(num_records))
    /\ UNCHANGED <<fail, src, wbuf, dst, last_rsid, num_records, tmp_same_dev, src_off, mapVars, codecVars>>

\* io::copy: a read returns some of what is left, or all of it; a read of
\* nothing ends the copy.
CopyChunk ==
    /\ pc = "prepend_copy"
    /\ LET left == Len(dst.bytes) - src_off IN
       IF left = 0
       THEN /\ pc' = "prepend_remove"
            /\ UNCHANGED <<tmp, src_off>>
       ELSE \E n \in {IF left < RECORD_SIZE THEN left ELSE RECORD_SIZE, left} :
            /\ tmp' = FileOf(tmp.bytes \o SubSeq(dst.bytes, src_off + 1, src_off + n))
            /\ src_off' = src_off + n
            /\ UNCHANGED pc
    /\ UNCHANGED <<fail, src, wbuf, dst, last_rsid, num_records, tmp_same_dev, mapVars, codecVars>>

RemoveTargetTruncates == FileOf(<<>>)

\* What fs::remove_file(file_path) leaves at the index path.
RemoveTarget == NoFile

RemoveFile ==
    /\ pc = "prepend_remove"
    /\ pc' = "prepend_rename"
    /\ dst' = RemoveTarget
    /\ UNCHANGED <<fail, src, wbuf, last_rsid, num_records, tmp, tmp_same_dev, src_off, mapVars, codecVars>>

\* fs::rename(&tmp_path, file_path): across devices it fails, the error
\* returns and the Temp, not yet released, deletes its file as it is dropped.
RenameTmp ==
    /\ pc = "prepend_rename"
    /\ IF tmp_same_dev
       THEN /\ pc' = "built"
            /\ dst' = tmp
            /\ UNCHANGED fail
       ELSE /\ pc' = "build_failed"
            /\ fail' = "exdev"
            /\ UNCHANGED dst
    /\ tmp' = NoFile
    /\ UNCHANGED <<src, wbuf, last_rsid, num_records, tmp_same_dev, src_off, mapVars, codecVars>>

PrependPcs ==
    {"prepend_tmp", "prepend_open", "prepend_header", "prepend_copy",
     "prepend_remove", "prepend_rename"}

\* Any step of prepend_file returns an I/O error through `?`; the Temp is
\* dropped and deletes its file.
PrependIoError ==
    /\ pc \in PrependPcs
    /\ pc' = "build_failed"
    /\ fail' = "io"
    /\ tmp' = NoFile
    /\ UNCHANGED <<src, wbuf, dst, last_rsid, num_records, tmp_same_dev, src_off, mapVars, codecVars>>

\* --------------------------------------------------------------- map_to_loci

\* The fields after the identifier of the k-th input row. (Every row has the
\* same number of fields: the csv reader, not set flexible, fails on a row
\* that has not.)
Payload(k) ==
    IF k % 2 = 1 THEN << <<"s", "A">>, <<"A", "A">> >>
    ELSE << <<"s", "B">>, <<"C", "T">> >>

\* The k-th input row: an identifier field and the payload fields after it.
InputRow(i, k) == <<RsidText(i)>> \o Payload(k)

InputRows(k) == {InputRow(i, k) : i \in Ids} \cup {<< <<"r", "s">> >> \o Payload(k)}

MaxItersOf(n) == IF U64IsSmall(n) THEN CeilLog2(U64ToNat(n)) ELSE 64

\* Whether an integer overflow panics ("on", a debug build) or wraps ("off", a
\* release build) is fixed by the build of the binary and shows at the first
\* overflow: it is "unknown" until then, and either from there on.
Builds(overflowed) ==
    IF overflowed /\ overflow_checks = "unknown" THEN {"on", "off"}
    ELSE {overflow_checks}

\* File::open(mapfile_path), the TSV reader and writer, the header read and
\* max_iters.
MapOpen ==
    /\ pc = "built"
    /\ \E n \in {read_u64_at(dst, U64Zero)} :
       IF n.ok
       THEN /\ pc' = "next_row"
            /\ num_keys_in_map' = n.val
            /\ max_iters' = MaxItersOf(n.val)
            /\ UNCHANGED fail
       ELSE /\ pc' = "map_failed"
            /\ fail' = n.err
            /\ UNCHANGED <<num_keys_in_map, max_iters>>
    /\ out' = <<>>
    /\ UNCHANGED <<dst, buildVars, overflow_checks, inp, start, end, iter, rsid,
                   out_src, underflow, codecVars>>

\* The head of the loop over the input rows: start, end, the row, its rsid.
\* `num_keys_in_map - 1` is evaluated before the row is looked at.
NextRow(row) ==
    /\ pc = "next_row"
    /\ Len(inp) < MaxInput
    /\ inp' = Append(inp, row)
    /\ start' = U64Zero
    /\ iter' = 0
    /\ \E e \in {U64Sub(num_keys_in_map, U64Of(1))} :
       \E id \in {rsid_to_u32(row[1])} :
       \E build \in Builds(e.overflow) :
           /\ overflow_checks' = build
           /\ underflow' = IF e.overflow THEN "init" ELSE underflow
           /\ end' = e.val
           /\ IF e.overflow /\ build = "on"
              THEN pc' = "map_failed" /\ fail' = "overflow" /\ UNCHANGED rsid
              ELSE IF ~id.ok
              THEN pc' = "map_failed" /\ fail' = id.err /\ UNCHANGED rsid
              ELSE pc' = "search" /\ rsid' = id.val /\ UNCHANGED fail
    /\ UNCHANGED <<dst, buildVars, num_keys_in_map, max_iters, out, out_src,
                   codecVars>>

\* `(end + start) / 2`
Middle(s, e) ==
    LET sum == U64Add(e, s) IN [val |-> U64Half(sum.val), overflow |-> sum.overflow]

\* The Equal arm: the chromosome byte and the position of the record at
\* seek_idx, as the text "<chrom>:<pos>".
ReadLoci(f, seek_idx) ==
    LET chrom_b == read_u8_at(f, U64Add(seek_idx, U64Of(4)).val)
        chrom == IF chrom_b.ok THEN u8_to_chrom(chrom_b.val) ELSE chrom_b
        pos == read_u32_at(f, U64Add(U64Add(seek_idx, U64Of(4)).val, U64Of(1)).val)
    IN  IF ~chrom.ok THEN chrom
        ELSE IF ~pos.ok THEN pos
        ELSE Ok(chrom.val \o <<":">> \o FormatDec(pos.val))

NewRecordKeepsAll(loci, row) == <<loci>> \o row

\* StringRecord: the loci, then the fields left in record_iter, in order.
NewRecord(loci, row) == <<loci>> \o Tail(row)

\* One pass of `for _ in 0..max_iters`.
SearchStep ==
    /\ pc = "search"
    /\ iter < max_iters
    /\ iter' = iter + 1
    /\ IF U64Less(end, start)
       THEN /\ pc' = "map_failed"
            /\ fail' = "not_found"
            /\ UNCHANGED <<overflow_checks, start, end, out, out_src, underflow>>
       ELSE
       \E middle \in {Middle(start, end)} :
       \E seek_idx \in {get_map_seek_index(middle.val)} :
       \E key \in {read_u32_at(dst, seek_idx.val)} :
       \E step \in {IF ~key.ok THEN [val |-> U64Zero, overflow |-> FALSE]
                     ELSE IF key.val < rsid THEN U64Add(middle.val, U64Of(1))
                     ELSE IF key.val > rsid THEN U64Sub(middle.val, U64Of(1))
                     ELSE [val |-> U64Zero, overflow |-> FALSE]} :
       \E build \in Builds(middle.overflow \/ seek_idx.overflow \/ step.overflow) :
           /\ overflow_checks' = build
           /\ IF (middle.overflow \/ seek_idx.overflow) /\ build = "on"
              THEN /\ pc' = "map_failed"
                   /\ fail' = "overflow"
                   /\ UNCHANGED <<start, end, out, out_src, underflow>>
              ELSE IF ~key.ok
              THEN /\ pc' = "map_failed"
                   /\ fail' = key.err
                   /\ UNCHANGED <<start, end, out, out_src, underflow>>
              ELSE IF key.val < rsid
              THEN /\ start' = step.val
                   /\ IF step.overflow /\ build = "on"
                      THEN pc' = "map_failed" /\ fail' = "overflow"
                      ELSE UNCHANGED <<pc, fail>>
                   /\ UNCHANGED <<end, out, out_src, underflow>>
              ELSE IF key.val > rsid
              THEN /\ end' = step.val
                   /\ underflow' = IF step.overflow THEN "step" ELSE underflow
                   /\ IF step.overflow /\ build = "on"
                      THEN pc' = "map_failed" /\ fail' = "overflow"
                      ELSE UNCHANGED <<pc, fail>>
                   /\ UNCHANGED <<start, out, out_src>>
              ELSE \E loci \in {ReadLoci(dst, seek_idx.val)} :
                   IF ~loci.ok
                   THEN /\ pc' = "map_failed"
                        /\ fail' = loci.err
                        /\ UNCHANGED <<start, end, out, out_src, underflow>>
                   ELSE /\ pc' = "next_row"
                        /\ out' = Append(out, NewRecord(loci.val, inp[Len(inp)]))
                        /\ out_src' = Append(out_src, Len(inp))
                        /\ UNCHANGED <<fail, start, end, underflow>>
    /\ UNCHANGED <<dst, buildVars, num_keys_in_map, max_iters, inp, rsid, codecVars>>

\* The range 0..max_iters is used up: the loop over the rows goes on.
SearchExhausted ==
    /\ pc = "search"
    /\ iter >= max_iters
    /\ pc' = "next_row"
    /\ UNCHANGED <<fail, dst, buildVars, mapVars, codecVars>>

\* The input table ends: Ok(()).
EndOfInput ==
    /\ pc = "next_row"
    /\ pc' = "map_done"
    /\ UNCHANGED <<fail, dst, buildVars, mapVars, codecVars>>

Next ==
    \/ OpenDst
    \/ \E r \in SrcRows : WriteRow(r)
    \/ FlushRecords
    \/ TempNewFile
    \/ OpenFiles
    \/ WriteHeader
    \/ CopyChunk
    \/ RemoveFile
    \/ RenameTmp
    \/ PrependIoError
    \/ MapOpen
    \/ \E row \in InputRows(Len(inp) + 1) : NextRow(row)
    \/ SearchStep
    \/ SearchExhausted
    \/ EndOfInput

Spec == Init /\ [][Next]_vars

\* ------------------------------------------------------------ the codec alone

LabelChars ==
    {"0", "1", "2", "3", "4", "5", "6", "7", "8", "9", "X", "Y", "M", "T", "+"}

LabelTexts == UNION {[1..n -> LabelChars] : n \in 0..MaxLabelLen}

CodecInit ==
    /\ pc = "codec"
    /\ c_pc = "label"
    /\ c_label \in LabelTexts
    /\ c_code = Err("none")
    /\ c_text = Err("none")
    /\ PipelineInit

Encode ==
    /\ c_pc = "label"
    /\ c_pc' = "encoded"
    /\ c_code' = chrom_to_u8(c_label)
    /\ UNCHANGED <<pc, fail, dst, buildVars, mapVars, c_label, c_text>>

Decode ==
    /\ c_pc = "encoded"
    /\ c_code.ok
    /\ c_pc' = "decoded"
    /\ c_text' = u8_to_chrom(c_code.val)
    /\ UNCHANGED <<pc, fail, dst, buildVars, mapVars, c_label, c_code>>

CodecNext == Encode \/ Decode

SpecCodec == CodecInit /\ [][CodecNext]_vars

\* ------------------------------------------------------- reading the outcome

\* The labels of the specification, in the order of their codes 1..25.
ValidLabelSeq ==
    << <<"1">>, <<"2">>, <<"3">>, <<"4">>, <<"5">>, <<"6">>, <<"7">>, <<"8">>,
       <<"9">>, <<"1", "0">>, <<"1", "1">>, <<"1", "2">>, <<"1", "3">>,
       <<"1", "4">>, <<"1", "5">>, <<"1", "6">>, <<"1", "7">>, <<"1", "8">>,
       <<"1", "9">>, <<"2", "0">>, <<"2", "1">>, <<"2", "2">>, <<"X">>, <<"Y">>,
       <<"M", "T">> >>

ValidLabels == {ValidLabelSeq[c] : c \in 1..25}

CodeOf(label) == CHOOSE c \in 1..25 : ValidLabelSeq[c] = label

RECURSIVE BeBytes(_, _)
BeBytes(v, n) == IF n = 0 THEN <<>> ELSE BeBytes(v \div 256, n - 1) \o <<v % 256>>

\* The well-formed source row of each identifier, its identifier field, and
\* the 9 bytes of its record.
RowOfId == [i \in Ids |-> SourceRow(i, LabelFor(i), PosFor(i))]

RsidTextOfId == [i \in Ids |-> RsidText(i)]

ChromOfId == [i \in Ids |-> CodeOf(LabelFor(i))]

PosOfId == [i \in Ids |-> PosFor(i)]

RecordOfId ==
    [i \in Ids |-> BeBytes(i, 4) \o <<CodeOf(LabelFor(i))>> \o BeBytes(PosFor(i), 4)]

\* The identifier a well-formed source row, or an input row, was made from.
SrcId(k) == CHOOSE i \in Ids : RowOfId[i] = src[k]

AllWellFormed == \A k \in 1..Len(src) : \E i \in Ids : RowOfId[i] = src[k]

HasInputId(row) == \E i \in Ids : RsidTextOfId[i] = row[1]

InputId(row) == CHOOSE i \in Ids : RsidTextOfId[i] = row[1]

\* The four bytes of b from place o on, as a big-endian number.
Be4(b, o) == ((b[o] * 256 + b[o + 1]) * 256 + b[o + 2]) * 256 + b[o + 3]

\* The k-th record of the index file (k from 1), read from its bytes: it
\* starts after the 8 bytes of the header and the 9 * (k - 1) of the records
\* before it.
StoredId(k) == Be4(dst.bytes, 9 * k)

StoredChrom(k) == dst.bytes[9 * k + 4]

StoredPos(k) == Be4(dst.bytes, 9 * k + 5)

StoredCount == (Len(dst.bytes) - 8) \div 9

\* The bytes the records of the source rows read so far make, and the header
\* that counts them.
RECURSIVE RecordBytes(_)
RecordBytes(k) ==
    IF k = 0 THEN <<>> ELSE RecordBytes(k - 1) \o RecordOfId[SrcId(k)]

Original == RecordBytes(Len(src))

Header == BeBytes(Len(src), 8)

\* The index has been built; `map` may be running on it.
BuiltPcs == {"built", "next_row", "search", "map_done", "map_failed"}

\* Every input row read so far has been dealt with.
RowsSettled == {"next_row", "map_done"}

DistinctIds == \A k \in 2..Len(src) : SrcId(k - 1) < SrcId(k)

\* ------------------------------------------------------------------ claims

\* C1: round trip. With the index built from N >= 1 rows of distinct ascending
\* identifiers, every input row whose identifier is a row of the table has,
\* once the search for it is over, been written with that row's original
\* "<label>:<position>".
C1_RoundTrip ==
    (pc \in RowsSettled \cup {"map_failed"} /\ Len(src) >= 1 /\ DistinctIds) =>
        \A k \in 1..Len(inp) :
            \A r \in 1..Len(src) :
                (HasInputId(inp[k]) /\ InputId(inp[k]) = SrcId(r)) =>
                    \E j \in 1..Len(out) : out_src[j] = k /\ out[j][1] = src[r][2]

\* C2: a miss is fatal. With an index of N >= 1 records, map_to_loci never goes
\* on to the next row, or ends with Ok, after a row whose identifier is not in
\* the index.
C2_MissIsFatal ==
    (pc \in RowsSettled /\ Len(src) >= 1) =>
        \A k \in 1..Len(inp) :
            HasInputId(inp[k]) =>
                \E r \in 1..StoredCount : StoredId(r) = InputId(inp[k])

\* The state part of C3. The build aborts exactly at the first row whose
\* identifier is less than that of the row before it, an equal identifier does
\* not abort it, nothing runs after the abort (so the header is not
\* prepended), and the records of a completed index are in non-decreasing
\* order of identifier.
C3_SortState ==
    /\ \A k \in 2..Len(src) :
          ((\E i \in Ids : RowOfId[i] = src[k]) /\ SrcId(k) < SrcId(k - 1)) =>
              (k = Len(src) /\ pc = "build_failed" /\ fail = "unsorted")
    /\ fail = "unsorted" =>
          (Len(src) >= 2 /\ SrcId(Len(src)) < SrcId(Len(src) - 1) /\ ~tmp.exists
           /\ dst = FileOf(Original))
    /\ pc \in BuiltPcs =>
          \A k \in 2..StoredCount : StoredId(k - 1) <= StoredId(k)

\* C3: sort enforcement, in every state, and no step is taken from a state in
\* which the build has aborted on an unsorted row.
C3_SortEnforced == []C3_SortState /\ [][fail # "unsorted"]_vars

C3_Witness ==
    /\ fail = "unsorted"
    /\ Len(src) = 3
    /\ SrcId(1) = SrcId(2)

\* C4: header integrity. After a successful create_map over n >= 0 rows the
\* first 8 bytes of the index decode, big-endian, to n, the n records of the
\* source rows follow in their order, and the file is 8 + 9 * n bytes long.
C4_HeaderIntegrity ==
    pc = "built" =>
        /\ dst.exists
        /\ AllWellFormed
        /\ Len(dst.bytes) = 8 + 9 * Len(src)
        /\ Be4(dst.bytes, 1) = 0
        /\ Be4(dst.bytes, 5) = Len(src)
        /\ \A k \in 1..Len(src) :
              \E i \in {SrcId(k)} :
                  /\ StoredId(k) = i
                  /\ StoredChrom(k) = ChromOfId[i]
                  /\ StoredPos(k) = PosOfId[i]

C4_Witness == pc = "built" /\ Len(src) = 3 /\ SrcId(1) < SrcId(3)

\* C5: row rewriting. Every written row comes from one input row whose
\* identifier is that of a record of the index; its first field is the
\* "<label>:<position>" of that record, its other fields are the input row's
\* fields after the first, unchanged and in order; written rows are in the
\* order of their input rows.
C5_RowRewriting ==
    /\ Len(out) = Len(out_src)
    /\ \A j \in 1..Len(out) :
          /\ out_src[j] \in 1..Len(inp)
          /\ Tail(out[j]) = Tail(inp[out_src[j]])
          /\ \E i \in {InputId(inp[out_src[j]])} : \E r \in 1..StoredCount :
                /\ StoredId(r) = i
                /\ StoredChrom(r) \in 1..25
                /\ out[j][1] = ValidLabelSeq[StoredChrom(r)] \o <<":">>
                                   \o FormatDec(StoredPos(r))
    /\ \A i, j \in 1..Len(out) : i < j => out_src[i] < out_src[j]

C5_Witness ==
    /\ Len(out) = 2
    /\ out[1][1] # out[2][1]
    /\ Tail(out[1]) = Payload(1)
    /\ Tail(out[2]) = Payload(2)

\* C6: chrom_to_u8 is an error on every label but "1".."22", "X", "Y", "MT",
\* so every code it gives is in 1..25 and u8_to_chrom of a code it gave never
\* aborts on an invalid representation.
C6_OnlyValidLabels ==
    /\ (c_pc \in {"encoded", "decoded"} /\ c_label \notin ValidLabels) => ~c_code.ok
    /\ c_code.ok => c_code.val \in 1..25
    /\ c_pc = "decoded" => c_text.ok

\* C7: chromosome round trip. For each of the 25 labels chrom_to_u8 gives its
\* code (1..22 for "1".."22", 23, 24, 25 for "X", "Y", "MT") and u8_to_chrom of
\* that code gives the label back.
C7_ChromRoundTrip ==
    c_label \in ValidLabels =>
        /\ c_pc \in {"encoded", "decoded"} =>
              (c_code.ok /\ c_code.val = CodeOf(c_label))
        /\ c_pc = "decoded" => (c_text.ok /\ c_text.val = c_label)

C7_Witness == c_pc = "decoded" /\ c_label = <<"Y">> /\ c_text.ok

\* C8: header splice. From the start of prepend_file on, whatever step it is
\* at and whether it failed, the index path holds the complete original
\* content, or no file (only once the remove has run and the rename has not
\* taken effect), or the header followed by the original content; when
\* prepend_file has returned Ok it holds the header and the original content.
C8_SpliceStates ==
    (pc \in PrependPcs \cup {"built"} \/ (pc = "build_failed" /\ fail \in {"io", "exdev"})) =>
        \E original \in {Original} :
            /\ \/ dst = FileOf(original)
               \/ dst = NoFile
               \/ dst = FileOf(Header \o original)
            /\ dst = NoFile => pc \in {"prepend_rename", "build_failed"}
            /\ pc = "built" => dst = FileOf(Header \o original)
            /\ pc \in PrependPcs \ {"prepend_rename"} => dst = FileOf(original)

C8_Witness == pc = "build_failed" /\ fail = "io" /\ dst = NoFile /\ Len(src) = 2

\* C9: no unsigned underflow. Neither `num_keys_in_map - 1` nor `middle - 1`
\* is ever evaluated on zero, and every middle the search computes is the
\* index of a record.
C9_NoUnderflow ==
    /\ underflow = "none"
    /\ (pc = "search" /\ iter < max_iters /\ ~U64Less(end, start)) =>
          U64Less(Middle(start, end).val, num_keys_in_map)

\* C10: the temporary file of prepend_file is on the device of the index, so
\* the rename never fails for crossing devices once the index was removed.
C10_SameDevice ==
    /\ tmp.exists => tmp_same_dev
    /\ fail # "exdev"

====
